---- MODULE Spec2Model ----
(***************************************************************************)
(* A model of the enumset crate (enumset/src/lib.rs): EnumSet<T>, a bit    *)
(* set over the variants of a C-like enum, its conversions to and from the *)
(* unsigned integers and its iterator.                                     *)
(*                                                                         *)
(* Unsigned integers of width W (u8..u128) are bit vectors: functions      *)
(* from the bit positions 0..W-1 to {0,1}, bit 0 the least significant.    *)
(* TLC's own integers are 32 bits wide and cannot hold a u64 or a u128;    *)
(* every operation of the integer types is defined on the bit vectors at   *)
(* its true width.                                                         *)
(***************************************************************************)
EXTENDS Integers, FiniteSets, Sequences, TLC

VARIABLES
    dom,      \* the enum type T of the sets (fixed for a run)
    set,      \* an EnumSet<T> of the program
    other,    \* a second EnumSet<T>, the operand of the binary operations
    ref,      \* the reference set of variants kept beside set
    last,     \* the last call made: its name, arguments and result
    it,       \* the EnumSetIter<T> in use: None, or Some of (set, position)
    yielded,  \* the variants next() has returned so far, in order
    nones,    \* how many times next() has returned None
    twin      \* the same run on the enum stored in another integer type: None,
              \* or Some of its (type, set, iterator, last result)

vars == <<dom, set, other, ref, last, it, yielded, nones, twin>>

(***************************************************************************)
(* Integer primitives (core / num_traits, as bound by EnumSetTypeRepr)     *)
(***************************************************************************)

\* The five storage types of prim!: u8, u16, u32, u64, u128.
Widths == {8, 16, 32, 64, 128}

\* Option<T>: None, Some(x).
None == <<>>

Some(x) == <<x>>

\* The width of an integer value.
WidthOf(x) == Cardinality(DOMAIN x)

\* T::Repr::zero()
Zero(W) == [i \in 0..(W - 1) |-> 0]

\* T::Repr::one()
One(W) == [i \in 0..(W - 1) |-> IF i = 0 THEN 1 ELSE 0]

\* x & y
BitAnd(x, y) == [i \in DOMAIN x |-> IF x[i] = 1 /\ y[i] = 1 THEN 1 ELSE 0]

\* x | y
BitOr(x, y) == [i \in DOMAIN x |-> IF x[i] = 1 \/ y[i] = 1 THEN 1 ELSE 0]

\* x ^ y
BitXor(x, y) == [i \in DOMAIN x |-> IF x[i] # y[i] THEN 1 ELSE 0]

\* !x
BitNot(x) == [i \in DOMAIN x |-> 1 - x[i]]

\* The outcome of a call: a panic, or the value returned.
Panic == [panic |-> TRUE, val |-> None]

Ok(v) == [panic |-> FALSE, val |-> Some(v)]

\* Option::expect: the value of Some, a panic on None.
Expect(opt) == IF opt = None THEN Panic ELSE Ok(opt[1])

\* x shifted left by k < width bits: the bits shifted out at the top are lost.
ShiftLeft(x, k) == [i \in DOMAIN x |-> IF i >= k THEN x[i - k] ELSE 0]

\* Shl::<usize>::shl, x << n: the outcomes the builds of the crate have.  With
\* n < width there is one, the shifted integer.  With n >= width the shift
\* overflows: a build with overflow checks (debug) panics, a build without
\* (release) shifts by the amount masked to the width.
Shl(x, n) ==
    IF n < WidthOf(x)
    THEN {Ok(ShiftLeft(x, n))}
    ELSE {Panic, Ok(ShiftLeft(x, n % WidthOf(x)))}

\* The value returned by a call that has the same outcome in every build and
\* does not panic.
Returned(outcomes) ==
    (CHOOSE o \in outcomes : outcomes = {o} /\ ~o.panic).val[1]

\* CheckedShl::checked_shl: None when the amount is >= the width.
CheckedShl(x, n) == IF n >= WidthOf(x) THEN None ELSE Some(ShiftLeft(x, n))

\* WrappingSub::wrapping_sub: x - y modulo 2^width.  Bit i of the difference
\* is x[i] - y[i] less the borrow into bit i; a borrow starts at a bit j
\* where x has 0 and y has 1 and runs up through the bits where x and y agree.
WrappingSub(x, y) ==
    LET borrow(i) ==
            IF \E j \in 0..(i - 1) :
                  /\ x[j] = 0 /\ y[j] = 1
                  /\ \A k \in (j + 1)..(i - 1) : x[k] = y[k]
            THEN 1 ELSE 0
    IN [i \in DOMAIN x |-> (x[i] - y[i] - borrow(i) + 2) % 2]

\* count_ones
CountOnes(x) == Cardinality({i \in DOMAIN x : x[i] = 1})

\* leading_zeros: the number of zero bits above the highest set bit.
LeadingZeros(x) ==
    LET ones == {i \in DOMAIN x : x[i] = 1}
        top == CHOOSE m \in ones : \A k \in ones : k <= m
    IN IF ones = {} THEN WidthOf(x) ELSE WidthOf(x) - 1 - top

\* is_zero
IsZero(x) == \A i \in DOMAIN x : x[i] = 0

\* AsPrimitive::as_ between unsigned integers: keeps the low bits, zero-extends.
AsPrim(x, W) ==
    [i \in 0..(W - 1) |-> IF i \in DOMAIN x THEN x[i] ELSE 0]

\* ToPrimitive::to_uW and FromPrimitive::from_uW: the value at width W when it
\* fits into W bits, None otherwise.
ToPrim(x, W) ==
    IF \A i \in DOMAIN x : i >= W => x[i] = 0 THEN Some(AsPrim(x, W)) ELSE None

\* The least and the greatest element of a set of numbers.
Min(S) == CHOOSE m \in S : \A k \in S : m <= k

Max(S) == CHOOSE m \in S : \A k \in S : k <= m

(***************************************************************************)
(* The enum types (EnumSetType / EnumSetTypePrivate, as the derive writes  *)
(* them): a variant's bit position is its discriminant, Repr is the        *)
(* smallest storage type with a bit for every variant, ALL_BITS has        *)
(* exactly the variants' bits set.                                         *)
(***************************************************************************)

\* type Repr: the smallest of u8..u128 that holds the highest discriminant.
ReprWidth(ord) ==
    CHOOSE W \in Widths :
        /\ \A v \in DOMAIN ord : ord[v] < W
        /\ \A W2 \in Widths : (\A v \in DOMAIN ord : ord[v] < W2) => W <= W2

\* const ALL_BITS: the bit of every variant.
AllBitsOf(ord, W) ==
    [i \in 0..(W - 1) |-> IF \E v \in DOMAIN ord : ord[v] = i THEN 1 ELSE 0]

EnumType(name, ord) ==
    [name |-> name, ord |-> ord, WIDTH |-> ReprWidth(ord),
     ALL_BITS |-> AllBitsOf(ord, ReprWidth(ord))]

\* The enum type d with Repr the unsigned integer of W bits.
EnumTypeIn(d, W) ==
    [name |-> d.name, ord |-> d.ord, WIDTH |-> W, ALL_BITS |-> AllBitsOf(d.ord, W)]

\* pub enum Enum { A, B, C, D, E, F, G }
Enum ==
    EnumType("Enum", [v \in {"A", "B", "C", "D", "E", "F", "G"} |->
        CASE v = "A" -> 0 [] v = "B" -> 1 [] v = "C" -> 2 [] v = "D" -> 3
          [] v = "E" -> 4 [] v = "F" -> 5 [] v = "G" -> 6])

\* pub enum SparseEnum { A = 10, B = 20, C = 30, D = 127 }
SparseEnum ==
    EnumType("SparseEnum", [v \in {"A", "B", "C", "D"} |->
        CASE v = "A" -> 10 [] v = "B" -> 20 [] v = "C" -> 30 [] v = "D" -> 127])

\* enum Foo { A = 10, B = 20 }
Foo == EnumType("Foo", [v \in {"A", "B"} |-> IF v = "A" THEN 10 ELSE 20])

\* An enum whose highest variant is the top bit of a u8.
TopU8 == EnumType("TopU8", [v \in {"A", "B"} |-> IF v = "A" THEN 2 ELSE 7])

\* An enum stored in a u16, its highest variant the top bit.
TopU16 ==
    EnumType("TopU16", [v \in {"A", "B", "C"} |->
        CASE v = "A" -> 0 [] v = "B" -> 9 [] v = "C" -> 15])

\* An enum stored in a u64, its highest variant below the top bit.
WideU64 ==
    EnumType("WideU64", [v \in {"A", "B", "C"} |->
        CASE v = "A" -> 1 [] v = "B" -> 40 [] v = "C" -> 62])

\* enum Enum { A, B, C }, the enum of the enum_set! examples.
Enum3 == EnumType("Enum3", [v \in {"A", "B", "C"} |->
    CASE v = "A" -> 0 [] v = "B" -> 1 [] v = "C" -> 2])

EnumTypes == {Enum, SparseEnum, Foo, TopU8, TopU16, WideU64}

\* The variants of the enum type d.
Variants(d) == DOMAIN d.ord

\* fn enum_into_u32(self) -> u32
enum_into_u32(d, v) == d.ord[v]

\* unsafe fn enum_from_u32(val: u32) -> Self: the variant of that bit; for a
\* bit of no variant the behaviour is undefined, any variant or a trap ("UB").
enum_from_u32(d, val) ==
    IF \E v \in Variants(d) : d.ord[v] = val
    THEN {v \in Variants(d) : d.ord[v] = val}
    ELSE Variants(d) \cup {"UB"}

(***************************************************************************)
(* EnumSet<T>: the value is its one field, __enumset_underlying: T::Repr.  *)
(***************************************************************************)

\* fn mask(bit: u32) -> T::Repr: the outcomes of the shift (one, unless
\* bit >= WIDTH).
mask(d, bit) == Shl(One(d.WIDTH), bit)

\* fn has_bit(&self, bit: u32) -> bool: a panic where mask panics, else
\* whether self & mask == mask.
has_bit(d, self, bit) ==
    {IF m.panic THEN Panic ELSE Ok(BitAnd(self, m.val[1]) = m.val[1]) :
        m \in mask(d, bit)}

\* partial_bits with one in place of zero where the checked shift is None.
partial_bits_unwrap_or_one(d, bits) ==
    LET shifted == CheckedShl(One(d.WIDTH), bits)
        unwrapped == IF shifted = None THEN One(d.WIDTH) ELSE shifted[1]
    IN WrappingSub(unwrapped, One(d.WIDTH))

\* fn partial_bits(bits: u32) -> T::Repr
partial_bits(d, bits) ==
    LET shifted == CheckedShl(One(d.WIDTH), bits)
        unwrapped == IF shifted = None THEN Zero(d.WIDTH) ELSE shifted[1]
    IN WrappingSub(unwrapped, One(d.WIDTH))

\* fn all_bits() -> T::Repr
all_bits(d) == d.ALL_BITS

\* pub fn new() -> Self
new(d) == Zero(d.WIDTH)

\* pub fn only(t: T) -> Self
\* (the bit of a variant is below WIDTH: the shift has one outcome)
only(d, t) == Returned(mask(d, enum_into_u32(d, t)))

\* pub fn empty() -> Self
empty(d) == new(d)

\* pub fn all() -> Self
all(d) == all_bits(d)

\* bit_width taken to be the number of variants.
bit_width_as_variant_count(d) == CountOnes(d.ALL_BITS)

\* bit_width taken to be the width of the storage type.
bit_width_as_WIDTH(d) == d.WIDTH

\* pub fn bit_width() -> u32
bit_width(d) == d.WIDTH - LeadingZeros(d.ALL_BITS)

\* variant_count taken to be the bit width.
variant_count_as_bit_width(d) == d.WIDTH - LeadingZeros(d.ALL_BITS)

\* pub fn variant_count() -> u32
variant_count(d) == CountOnes(d.ALL_BITS)

\* pub fn len(&self) -> usize
len(self) == CountOnes(self)

\* pub fn is_empty(&self) -> bool
is_empty(self) == IsZero(self)

\* pub fn clear(&mut self): the new value of self.
clear(d, self) == Zero(d.WIDTH)

\* pub fn union(&self, other: Self) -> Self
union(self, o) == BitOr(self, o)

\* pub fn intersection(&self, other: Self) -> Self
intersection(self, o) == BitAnd(self, o)

\* difference computed with the exclusive or.
difference_as_xor(self, o) == BitXor(self, o)

\* pub fn difference(&self, other: Self) -> Self
difference(self, o) == BitAnd(self, BitNot(o))

\* pub fn symmetrical_difference(&self, other: Self) -> Self
symmetrical_difference(self, o) == BitXor(self, o)

\* complement without the restriction to ALL_BITS.
complement_unmasked(d, self) == BitNot(self)

\* pub fn complement(&self) -> Self
complement(d, self) == BitAnd(BitNot(self), all_bits(d))

\* pub fn is_disjoint(&self, other: Self) -> bool
is_disjoint(self, o) == is_empty(intersection(self, o))

\* pub fn is_superset(&self, other: Self) -> bool
is_superset(self, o) == intersection(self, o) = o

\* is_subset that does not swap its operands.
is_subset_unswapped(self, o) == is_superset(self, o)

\* pub fn is_subset(&self, other: Self) -> bool
is_subset(self, o) == is_superset(o, self)

\* pub fn contains(&self, value: T) -> bool
contains(d, self, value) == Returned(has_bit(d, self, enum_into_u32(d, value)))

\* insert returning whether the value was present.
insert_returns_present(d, self, value) ==
    [self |-> BitOr(self, Returned(mask(d, enum_into_u32(d, value)))),
     ret |-> contains(d, self, value)]

\* pub fn insert(&mut self, value: T) -> bool: the new self and the result.
insert(d, self, value) ==
    [self |-> BitOr(self, Returned(mask(d, enum_into_u32(d, value)))),
     ret |-> ~contains(d, self, value)]

\* pub fn remove(&mut self, value: T) -> bool: the new self and the result.
remove(d, self, value) ==
    [self |-> BitAnd(self, BitNot(Returned(mask(d, enum_into_u32(d, value))))),
     ret |-> contains(d, self, value)]

\* pub fn insert_all(&mut self, other: Self): the new self.
insert_all(self, o) == BitOr(self, o)

\* pub fn remove_all(&mut self, other: Self): the new self.
remove_all(self, o) == BitAnd(self, BitNot(o))

(***************************************************************************)
(* conversion_impls!: the conversions for the integer type of width W.     *)
(***************************************************************************)

\* try_to that casts instead of checking that the value fits.
try_as_W_casting(W, self) == Some(AsPrim(self, W))

\* pub fn $try_to(&self) -> Option<$underlying>
try_as_W(W, self) == ToPrim(self, W)

\* pub fn $to(&self) -> $underlying
as_W(W, self) == Expect(try_as_W(W, self))

\* to_truncated that loses the top bit of the target type.
as_W_truncated_short(W, self) ==
    [i \in 0..(W - 1) |-> IF i \in DOMAIN self /\ i < W - 1 THEN self[i] ELSE 0]

\* pub fn $to_truncated(&self) -> $underlying
as_W_truncated(W, self) == AsPrim(self, W)

\* try_from that only checks that the integer fits the storage type.
try_from_W_unchecked(d, bits) == ToPrim(bits, d.WIDTH)

\* pub fn $try_from(bits: $underlying) -> Option<Self>
try_from_W(d, bits) ==
    LET converted == ToPrim(bits, d.WIDTH)
        m == all(d)
        check(b) == IF BitAnd(b, BitNot(m)) = Zero(d.WIDTH) THEN Some(b) ELSE None
    IN IF converted = None THEN None ELSE check(converted[1])

\* pub fn $from(bits: $underlying) -> Self
from_W(d, bits) == Expect(try_from_W(d, bits))

\* from_truncated that casts without masking by ALL_BITS.
from_W_truncated_unmasked(d, bits) == AsPrim(bits, d.WIDTH)

\* pub fn $from_truncated(bits: $underlying) -> Self
from_W_truncated(d, bits) ==
    LET m == as_W_truncated(WidthOf(bits), all(d))
    IN AsPrim(BitAnd(bits, m), d.WIDTH)

(***************************************************************************)
(* EnumSetIter<T>(EnumSet<T>, u32): the set copied by iter() and the scan  *)
(* position.                                                               *)
(***************************************************************************)

\* iter that starts the scan one bit too far.
iter_skips_first(self) == [set |-> self, pos |-> 1]

\* pub fn iter(&self) -> EnumSetIter<T>
iter(self) == [set |-> self, pos |-> 0]

\* The while loop of next() from position pos on: it stops at the first bit
\* at or after pos and below bit_width() that has_bit finds set, leaving
\* self.1 one past it and handing the bit to enum_from_u32; with no such bit
\* it runs self.1 up to bit_width() and the result is None.
next_scan(d, self, pos) ==
    LET found == {b \in pos..(bit_width(d) - 1) : Returned(has_bit(d, self, b))}
    IN IF found # {}
       THEN [pos |-> Min(found) + 1, bit |-> Some(Min(found))]
       ELSE [pos |-> IF pos < bit_width(d) THEN bit_width(d) ELSE pos, bit |-> None]

\* fn next(&mut self) -> Option<Self::Item>: the iterators it may leave (one,
\* unless enum_from_u32 is undefined) with the value returned.
next(d, i) ==
    LET r == next_scan(d, i.set, i.pos)
    IN IF r.bit = None
       THEN {[iter |-> [set |-> i.set, pos |-> r.pos], bit |-> None, ret |-> None]}
       ELSE {[iter |-> [set |-> i.set, pos |-> r.pos], bit |-> r.bit, ret |-> Some(v)] :
                v \in enum_from_u32(d, r.bit[1])}

\* fn size_hint(&self) -> (usize, Option<usize>)
size_hint(d, i) ==
    LET left_mask == BitNot(partial_bits(d, i.pos))
        left == CountOnes(BitAnd(i.set, left_mask))
    IN <<left, Some(left)>>

(***************************************************************************)
(* enum_set!: the set literal for const contexts.                          *)
(***************************************************************************)

\* $value as u32: the discriminant of the variant.
as_u32(d, value) == d.ord[value]

\* The literal with the bits combined by exclusive or.
RECURSIVE enum_set_xor(_, _)
enum_set_xor(d, values) ==
    IF values = <<>>
    THEN Zero(d.WIDTH)
    ELSE BitXor(enum_set_xor(d, SubSeq(values, 1, Len(values) - 1)),
                Returned(Shl(One(d.WIDTH), as_u32(d, values[Len(values)]))))

\* enum_set!($($value)|*): 0 for the empty literal, and otherwise
\* 0 | (1 << ($value as u32)) | ... over the values in the order written, the
\* integer literals of type T::Repr.
RECURSIVE enum_set(_, _)
enum_set(d, values) ==
    IF values = <<>>
    THEN Zero(d.WIDTH)
    ELSE BitOr(enum_set(d, SubSeq(values, 1, Len(values) - 1)),
               Returned(Shl(One(d.WIDTH), as_u32(d, values[Len(values)]))))

(***************************************************************************)
(* Inputs                                                                  *)
(***************************************************************************)

\* The most bits set in an integer handed to a from_* conversion.
MaxInputBits == 2

\* The most calls of next() made after the iterator has run out.
MaxNone == 2

\* The integer of width W with exactly the bits of S set.
FromBits(W, S) == [i \in 0..(W - 1) |-> IF i \in S THEN 1 ELSE 0]

Ends(S) == IF S = {} THEN {} ELSE {Min(S), Max(S)}

\* The bit positions the input integers of width W are built from: the lowest
\* and highest bit of a variant below W, and the lowest and highest bit below W
\* that is no variant's.
ProbeBits(d, W) ==
    LET valid == {i \in 0..(W - 1) : \E v \in Variants(d) : d.ord[v] = i}
    IN Ends(valid) \cup Ends((0..(W - 1)) \ valid)

\* The integers of width W handed to the from_* conversions of d: those with
\* at most MaxInputBits of the probe bits set.
InputsOf(d, W) ==
    {FromBits(W, S) : S \in {X \in SUBSET ProbeBits(d, W) : Cardinality(X) <= MaxInputBits}}

\* InputsOf, computed once for each enum type and width.
InputTable == [d \in EnumTypes |-> [W \in Widths |-> InputsOf(d, W)]]

Inputs(d, W) == InputTable[d][W]

\* The set written v1 | v2 | ... for the variants vs: the union of only(v).
RECURSIVE SetOf(_, _)
SetOf(d, vs) ==
    IF vs = {} THEN empty(d)
    ELSE LET v == CHOOSE x \in vs : TRUE
         IN union(only(d, v), SetOf(d, vs \ {v}))

\* Every set of variants of d, as an EnumSet.
Sets(d) == {SetOf(d, vs) : vs \in SUBSET Variants(d)}

\* The most variants in the operand of insert_all and remove_all.
MaxOperand == 2

\* The sets of variants handed to insert_all and remove_all.
Operands(d) == {vs \in SUBSET Variants(d) : Cardinality(vs) <= MaxOperand}

\* The most values written in an enum_set! literal.
MaxLiteral == 3

\* The lists of variants written in enum_set!: any order, with repeats.
Literals(d) == UNION {[1..n -> Variants(d)] : n \in 0..MaxLiteral}

\* The most variants of a generated enum type.
MaxVariants == 3

\* The discriminants the generated enum types take their variants from: the
\* first bits and the bits on either side of each storage width.
ProbeDiscriminants == {0, 1, 2, 6, 7, 8, 15, 16, 31, 32, 63, 64, 127}

\* The enum types with 1..MaxVariants variants at probe discriminants, each
\* variant named by its discriminant.
GeneratedTypes ==
    {EnumType("Generated", [v \in D |-> v]) :
        D \in {X \in SUBSET ProbeDiscriminants :
                  Cardinality(X) >= 1 /\ Cardinality(X) <= MaxVariants}}

\* The record kept of a call: its name, the width W of a conversion (0 when
\* it has none), its argument and result (None when it has none), and set and
\* ref as they were before it.
Call(op, w, arg, ret) ==
    [op |-> op, w |-> w, arg |-> arg, ret |-> ret,
     pre |-> Some([set |-> set, ref |-> ref])]

NoCall == [op |-> "none", w |-> 0, arg |-> None, ret |-> None, pre |-> None]

(***************************************************************************)
(* Spec: the public operations on set, with other as the second operand.   *)
(***************************************************************************)

Init ==
    /\ dom \in EnumTypes
    /\ set = new(dom)
    /\ other = new(dom)
    /\ ref = {}
    /\ last = NoCall
    /\ it = None
    /\ yielded = <<>>
    /\ nones = 0
    /\ twin = None

\* Only set changes.
SetBecomes(s) ==
    /\ set' = s
    /\ UNCHANGED <<dom, other, ref, last, it, yielded, nones, twin>>

New == SetBecomes(new(dom))

Only == \E v \in Variants(dom) : SetBecomes(only(dom, v))

All == SetBecomes(all(dom))

Clear == SetBecomes(clear(dom, set))

Insert == \E v \in Variants(dom) : SetBecomes(insert(dom, set, v).self)

Remove == \E v \in Variants(dom) : SetBecomes(remove(dom, set, v).self)

InsertAll == SetBecomes(insert_all(set, other))

RemoveAll == SetBecomes(remove_all(set, other))

Union == SetBecomes(union(set, other))

Intersection == SetBecomes(intersection(set, other))

Difference == SetBecomes(difference(set, other))

SymmetricalDifference == SetBecomes(symmetrical_difference(set, other))

Complement == SetBecomes(complement(dom, set))

\* let set = EnumSet::try_from_W(bits): a value only when the result is Some.
TryFrom ==
    \E W \in Widths : \E bits \in Inputs(dom, W) :
        /\ try_from_W(dom, bits) # None
        /\ SetBecomes(try_from_W(dom, bits)[1])

\* let set = EnumSet::from_W(bits): a value only when the call does not panic.
From ==
    \E W \in Widths : \E bits \in Inputs(dom, W) :
        /\ ~from_W(dom, bits).panic
        /\ SetBecomes(from_W(dom, bits).val[1])

FromTruncated ==
    \E W \in Widths : \E bits \in Inputs(dom, W) :
        SetBecomes(from_W_truncated(dom, bits))

\* let other = set (EnumSet is Copy).
Copy ==
    /\ other' = set
    /\ UNCHANGED <<dom, set, ref, last, it, yielded, nones, twin>>

Next ==
    \/ New
    \/ Only
    \/ All
    \/ Clear
    \/ Insert
    \/ Remove
    \/ InsertAll
    \/ RemoveAll
    \/ Union
    \/ Intersection
    \/ Difference
    \/ SymmetricalDifference
    \/ Complement
    \/ TryFrom
    \/ From
    \/ FromTruncated
    \/ Copy

Spec == Init /\ [][Next]_vars

(***************************************************************************)
(* SpecMut: the mutating operations on a set that starts empty, with the   *)
(* reference set ref updated beside it and every call recorded in last.    *)
(***************************************************************************)

\* set, ref and last change.
Tracked(s, r, call) ==
    /\ set' = s
    /\ ref' = r
    /\ last' = call
    /\ UNCHANGED <<dom, other, it, yielded, nones, twin>>

MutInsert ==
    \E v \in Variants(dom) :
        LET r == insert(dom, set, v)
        IN Tracked(r.self, ref \cup {v}, Call("insert", 0, Some(v), Some(r.ret)))

MutRemove ==
    \E v \in Variants(dom) :
        LET r == remove(dom, set, v)
        IN Tracked(r.self, ref \ {v}, Call("remove", 0, Some(v), Some(r.ret)))

MutInsertAll ==
    \E vs \in Operands(dom) :
        Tracked(insert_all(set, SetOf(dom, vs)), ref \cup vs,
                Call("insert_all", 0, Some(vs), None))

MutRemoveAll ==
    \E vs \in Operands(dom) :
        Tracked(remove_all(set, SetOf(dom, vs)), ref \ vs,
                Call("remove_all", 0, Some(vs), None))

MutClear == Tracked(clear(dom, set), {}, Call("clear", 0, None, None))

NextMut ==
    \/ MutInsert
    \/ MutRemove
    \/ MutInsertAll
    \/ MutRemoveAll
    \/ MutClear

SpecMut == Init /\ [][NextMut]_vars

(***************************************************************************)
(* SpecConv: the conversions applied to any set of the enum type and to    *)
(* the input integers, every call recorded in last.                        *)
(***************************************************************************)

InitConv ==
    /\ dom \in EnumTypes
    /\ set \in Sets(dom)
    /\ other = new(dom)
    /\ ref = {}
    /\ last = NoCall
    /\ it = None
    /\ yielded = <<>>
    /\ nones = 0
    /\ twin = None

\* A call that leaves set alone, made once the record of the call before it
\* has been dropped.
Query(call) ==
    /\ last = NoCall
    /\ last' = call
    /\ UNCHANGED <<dom, set, other, ref, it, yielded, nones, twin>>

\* A call whose result s becomes set.
Construct(s, call) ==
    /\ last = NoCall
    /\ set' = s
    /\ last' = call
    /\ UNCHANGED <<dom, other, ref, it, yielded, nones, twin>>

ConvTryAs == \E W \in Widths : Query(Call("try_as", W, None, Some(try_as_W(W, set))))

ConvAs == \E W \in Widths : Query(Call("as", W, None, Some(as_W(W, set))))

ConvAsTruncated ==
    \E W \in Widths : Query(Call("as_truncated", W, None, Some(as_W_truncated(W, set))))

ConvTryFrom ==
    \E W \in Widths : \E bits \in Inputs(dom, W) :
        LET r == try_from_W(dom, bits)
        IN Construct(IF r = None THEN set ELSE r[1],
                     Call("try_from", W, Some(bits), Some(r)))

ConvFrom ==
    \E W \in Widths : \E bits \in Inputs(dom, W) :
        LET r == from_W(dom, bits)
        IN Construct(IF r.panic THEN set ELSE r.val[1],
                     Call("from", W, Some(bits), Some(r)))

ConvFromTruncated ==
    \E W \in Widths : \E bits \in Inputs(dom, W) :
        LET r == from_W_truncated(dom, bits)
        IN Construct(r, Call("from_truncated", W, Some(bits), Some(r)))

\* EnumSet::try_from_W(set.as_W_truncated())
ConvTruncatedThenTryFrom ==
    \E W \in Widths :
        Query(Call("try_from(as_truncated)", W, None,
                   Some(try_from_W(dom, as_W_truncated(W, set)))))

\* EnumSet::from_W_truncated(set.as_W()), where as_W does not panic.
ConvAsThenFromTruncated ==
    \E W \in Widths :
        /\ ~as_W(W, set).panic
        /\ Query(Call("from_truncated(as)", W, None,
                      Some(from_W_truncated(dom, as_W(W, set).val[1]))))

\* The program goes on to its next call: the record of the last one is dropped.
Forget ==
    /\ last # NoCall
    /\ last' = NoCall
    /\ UNCHANGED <<dom, set, other, ref, it, yielded, nones, twin>>

NextConv ==
    \/ Forget
    \/ ConvTryAs
    \/ ConvAs
    \/ ConvAsTruncated
    \/ ConvTryFrom
    \/ ConvFrom
    \/ ConvFromTruncated
    \/ ConvTruncatedThenTryFrom
    \/ ConvAsThenFromTruncated

SpecConv == InitConv /\ [][NextConv]_vars

(***************************************************************************)
(* SpecLit: sets written with enum_set!, every literal recorded in last.   *)
(***************************************************************************)

\* const SET: EnumSet<T> = enum_set!(v1 | ... | vk)
Literal ==
    \E values \in Literals(dom) :
        LET r == enum_set(dom, values)
        IN Construct(r, Call("enum_set", 0, Some(values), Some(r)))

NextLit ==
    \/ Literal
    \/ Forget

SpecLit == Init /\ [][NextLit]_vars

(***************************************************************************)
(* SpecWidth: bit_width(), variant_count() and all().len() of the enum     *)
(* types of the crate's documentation and of the generated ones.           *)
(***************************************************************************)

InitWidth ==
    /\ dom \in EnumTypes \/ dom \in GeneratedTypes
    /\ set = new(dom)
    /\ other = new(dom)
    /\ ref = {}
    /\ last = NoCall
    /\ it = None
    /\ yielded = <<>>
    /\ nones = 0
    /\ twin = None

WidthBitWidth == Query(Call("bit_width", 0, None, Some(bit_width(dom))))

WidthVariantCount == Query(Call("variant_count", 0, None, Some(variant_count(dom))))

\* EnumSet::all().len()
WidthAllLen ==
    LET r == all(dom)
    IN Construct(r, Call("all().len", 0, None, Some(len(r))))

NextWidth ==
    \/ WidthBitWidth
    \/ WidthVariantCount
    \/ WidthAllLen
    \/ Forget

SpecWidth == InitWidth /\ [][NextWidth]_vars

(***************************************************************************)
(* SpecIter: iterators over any set of the enum type: iter(), next() and   *)
(* size_hint(), with what next() returned kept in yielded and nones.       *)
(***************************************************************************)

\* let it = set.iter()
IterNew ==
    /\ it' = Some(iter(set))
    /\ yielded' = <<>>
    /\ nones' = 0
    /\ last' = Call("iter", 0, None, None)
    /\ UNCHANGED <<dom, set, other, ref, twin>>

\* it.next(); after the iterator has run out, at most MaxNone calls.
IterNext ==
    /\ it # None
    /\ nones < MaxNone
    /\ \E r \in next(dom, it[1]) :
          /\ it' = Some(r.iter)
          /\ yielded' = IF r.ret = None THEN yielded ELSE Append(yielded, r.ret[1])
          /\ nones' = IF r.ret = None THEN nones + 1 ELSE nones
          /\ last' = Call("next", 0, r.bit, Some(r.ret))
    /\ UNCHANGED <<dom, set, other, ref, twin>>

\* it.size_hint()
IterSizeHint ==
    /\ it # None
    /\ last' = Call("size_hint", 0, None, Some(size_hint(dom, it[1])))
    /\ UNCHANGED <<dom, set, other, ref, it, yielded, nones, twin>>

NextIter ==
    \/ IterNew
    \/ IterNext
    \/ IterSizeHint

SpecIter == InitConv /\ [][NextIter]_vars

(***************************************************************************)
(* SpecIterMut: an iterator used while the set it was made from goes on    *)
(* changing.  ref keeps the members the set had when iter() was called.    *)
(***************************************************************************)

InitIterMut ==
    /\ dom \in {Enum3, Foo, TopU8, TopU16, WideU64}
    /\ set = new(dom)
    /\ other = new(dom)
    /\ ref = {}
    /\ last = NoCall
    /\ it = None
    /\ yielded = <<>>
    /\ nones = 0
    /\ twin = None

\* let it = set.iter()
IterMutNew ==
    /\ it' = Some(iter(set))
    /\ yielded' = <<>>
    /\ nones' = 0
    /\ ref' = {v \in Variants(dom) : contains(dom, set, v)}
    /\ last' = Call("iter", 0, None, None)
    /\ UNCHANGED <<dom, set, other, twin>>

IterMutInsertAll ==
    \E vs \in Operands(dom) : SetBecomes(insert_all(set, SetOf(dom, vs)))

IterMutRemoveAll ==
    \E vs \in Operands(dom) : SetBecomes(remove_all(set, SetOf(dom, vs)))

NextIterMut ==
    \/ IterMutNew
    \/ IterNext
    \/ IterSizeHint
    \/ Insert
    \/ Remove
    \/ IterMutInsertAll
    \/ IterMutRemoveAll
    \/ Clear

SpecIterMut == InitIterMut /\ [][NextIterMut]_vars

(***************************************************************************)
(* SpecTwin: one sequence of calls made on two representations of the same *)
(* enum, dom and twin[1].dom, which differ only in the storage type Repr.  *)
(* Operands are given as variants and as integers, so that both runs get   *)
(* the same arguments; last.ret and twin[1].ret are the two results.       *)
(***************************************************************************)

\* The enums run twice.
TwinTypes == {Enum3, TopU8, TopU16, Foo, WideU64}

\* The storage types that have a bit for every variant of d.
Fitting(d) == {W \in Widths : \A v \in Variants(d) : d.ord[v] < W}

TwinInputTable == [d \in TwinTypes |-> [W \in Widths |-> InputsOf(d, W)]]

\* The integers of width W handed to the from_* conversions of both runs.
TwinInputs(d, W) == TwinInputTable[EnumType(d.name, d.ord)][W]

InitTwin ==
    /\ dom \in UNION {{EnumTypeIn(d, W) : W \in Fitting(d)} : d \in TwinTypes}
    /\ set = new(dom)
    /\ other = new(dom)
    /\ ref = {}
    /\ last = NoCall
    /\ it = None
    /\ yielded = <<>>
    /\ nones = 0
    /\ twin \in {Some([dom |-> EnumTypeIn(dom, W), set |-> new(EnumTypeIn(dom, W)),
                       it |-> None, ret |-> None]) :
                    W \in {X \in Fitting(dom) : X > dom.WIDTH}}

\* A call that leaves s1 in set with result r1, and s2 with r2 in the twin.
TwinCall(op, w, arg, s1, r1, s2, r2) ==
    /\ last = NoCall
    /\ it = None
    /\ set' = s1
    /\ last' = Call(op, w, arg, r1)
    /\ twin' = Some([twin[1] EXCEPT !.set = s2, !.ret = r2])
    /\ UNCHANGED <<dom, other, ref, it, yielded, nones>>

TwinNew ==
    TwinCall("new", 0, None, new(dom), None, new(twin[1].dom), None)

TwinOnly ==
    \E v \in Variants(dom) :
        TwinCall("only", 0, Some(v), only(dom, v), None, only(twin[1].dom, v), None)

TwinAll ==
    TwinCall("all", 0, None, all(dom), None, all(twin[1].dom), None)

TwinClear ==
    TwinCall("clear", 0, None, clear(dom, set), None,
             clear(twin[1].dom, twin[1].set), None)

TwinInsert ==
    \E v \in Variants(dom) :
        LET a == insert(dom, set, v)
            b == insert(twin[1].dom, twin[1].set, v)
        IN TwinCall("insert", 0, Some(v), a.self, Some(a.ret), b.self, Some(b.ret))

TwinRemove ==
    \E v \in Variants(dom) :
        LET a == remove(dom, set, v)
            b == remove(twin[1].dom, twin[1].set, v)
        IN TwinCall("remove", 0, Some(v), a.self, Some(a.ret), b.self, Some(b.ret))

TwinInsertAll ==
    \E vs \in SUBSET Variants(dom) :
        TwinCall("insert_all", 0, Some(vs),
                 insert_all(set, SetOf(dom, vs)), None,
                 insert_all(twin[1].set, SetOf(twin[1].dom, vs)), None)

TwinRemoveAll ==
    \E vs \in SUBSET Variants(dom) :
        TwinCall("remove_all", 0, Some(vs),
                 remove_all(set, SetOf(dom, vs)), None,
                 remove_all(twin[1].set, SetOf(twin[1].dom, vs)), None)

TwinUnion ==
    \E vs \in SUBSET Variants(dom) :
        TwinCall("union", 0, Some(vs),
                 union(set, SetOf(dom, vs)), None,
                 union(twin[1].set, SetOf(twin[1].dom, vs)), None)

TwinIntersection ==
    \E vs \in SUBSET Variants(dom) :
        TwinCall("intersection", 0, Some(vs),
                 intersection(set, SetOf(dom, vs)), None,
                 intersection(twin[1].set, SetOf(twin[1].dom, vs)), None)

TwinDifference ==
    \E vs \in SUBSET Variants(dom) :
        TwinCall("difference", 0, Some(vs),
                 difference(set, SetOf(dom, vs)), None,
                 difference(twin[1].set, SetOf(twin[1].dom, vs)), None)

TwinSymmetricalDifference ==
    \E vs \in SUBSET Variants(dom) :
        TwinCall("symmetrical_difference", 0, Some(vs),
                 symmetrical_difference(set, SetOf(dom, vs)), None,
                 symmetrical_difference(twin[1].set, SetOf(twin[1].dom, vs)), None)

TwinComplement ==
    TwinCall("complement", 0, None, complement(dom, set), None,
             complement(twin[1].dom, twin[1].set), None)

TwinContains ==
    \E v \in Variants(dom) :
        TwinCall("contains", 0, Some(v),
                 set, Some(contains(dom, set, v)),
                 twin[1].set, Some(contains(twin[1].dom, twin[1].set, v)))

TwinIsEmpty ==
    TwinCall("is_empty", 0, None, set, Some(is_empty(set)),
             twin[1].set, Some(is_empty(twin[1].set)))

TwinLen ==
    TwinCall("len", 0, None, set, Some(len(set)), twin[1].set, Some(len(twin[1].set)))

TwinIsDisjoint ==
    \E vs \in SUBSET Variants(dom) :
        TwinCall("is_disjoint", 0, Some(vs),
                 set, Some(is_disjoint(set, SetOf(dom, vs))),
                 twin[1].set, Some(is_disjoint(twin[1].set, SetOf(twin[1].dom, vs))))

TwinIsSuperset ==
    \E vs \in SUBSET Variants(dom) :
        TwinCall("is_superset", 0, Some(vs),
                 set, Some(is_superset(set, SetOf(dom, vs))),
                 twin[1].set, Some(is_superset(twin[1].set, SetOf(twin[1].dom, vs))))

TwinIsSubset ==
    \E vs \in SUBSET Variants(dom) :
        TwinCall("is_subset", 0, Some(vs),
                 set, Some(is_subset(set, SetOf(dom, vs))),
                 twin[1].set, Some(is_subset(twin[1].set, SetOf(twin[1].dom, vs))))

TwinBitWidth ==
    TwinCall("bit_width", 0, None, set, Some(bit_width(dom)),
             twin[1].set, Some(bit_width(twin[1].dom)))

TwinVariantCount ==
    TwinCall("variant_count", 0, None, set, Some(variant_count(dom)),
             twin[1].set, Some(variant_count(twin[1].dom)))

TwinTryAs ==
    \E W \in Widths :
        TwinCall("try_as", W, None, set, Some(try_as_W(W, set)),
                 twin[1].set, Some(try_as_W(W, twin[1].set)))

TwinAs ==
    \E W \in Widths :
        TwinCall("as", W, None, set, Some(as_W(W, set)),
                 twin[1].set, Some(as_W(W, twin[1].set)))

TwinAsTruncated ==
    \E W \in Widths :
        TwinCall("as_truncated", W, None, set, Some(as_W_truncated(W, set)),
                 twin[1].set, Some(as_W_truncated(W, twin[1].set)))

\* try_from_W: the result is Some of a set or None; the set found becomes set.
TwinTryFrom ==
    \E W \in Widths : \E bits \in TwinInputs(dom, W) :
        LET a == try_from_W(dom, bits)
            b == try_from_W(twin[1].dom, bits)
        IN TwinCall("try_from", W, Some(bits),
                    IF a = None THEN set ELSE a[1], Some(a # None),
                    IF b = None THEN twin[1].set ELSE b[1], Some(b # None))

\* from_W: the result is a set or a panic; the set becomes set.
TwinFrom ==
    \E W \in Widths : \E bits \in TwinInputs(dom, W) :
        LET a == from_W(dom, bits)
            b == from_W(twin[1].dom, bits)
        IN TwinCall("from", W, Some(bits),
                    IF a.panic THEN set ELSE a.val[1], Some(a.panic),
                    IF b.panic THEN twin[1].set ELSE b.val[1], Some(b.panic))

TwinFromTruncated ==
    \E W \in Widths : \E bits \in TwinInputs(dom, W) :
        TwinCall("from_truncated", W, Some(bits),
                 from_W_truncated(dom, bits), None,
                 from_W_truncated(twin[1].dom, bits), None)

\* for ... in set.iter(): while the loop runs, the calls are those of the
\* two iterators.
TwinIter ==
    /\ last = NoCall
    /\ it = None
    /\ it' = Some(iter(set))
    /\ nones' = 0
    /\ last' = Call("iter", 0, None, None)
    /\ twin' = Some([twin[1] EXCEPT !.it = Some(iter(twin[1].set)), !.ret = None])
    /\ UNCHANGED <<dom, set, other, ref, yielded>>

TwinIterNext ==
    /\ last = NoCall
    /\ it # None
    /\ nones < MaxNone
    /\ \E a \in next(dom, it[1]) : \E b \in next(twin[1].dom, twin[1].it[1]) :
          /\ it' = Some(a.iter)
          /\ nones' = IF a.ret = None THEN nones + 1 ELSE nones
          /\ last' = Call("next", 0, None, Some(a.ret))
          /\ twin' = Some([twin[1] EXCEPT !.it = Some(b.iter), !.ret = Some(b.ret)])
    /\ UNCHANGED <<dom, set, other, ref, yielded>>

TwinIterSizeHint ==
    /\ last = NoCall
    /\ it # None
    /\ last' = Call("size_hint", 0, None, Some(size_hint(dom, it[1])))
    /\ twin' = Some([twin[1] EXCEPT !.ret = Some(size_hint(twin[1].dom, twin[1].it[1]))])
    /\ UNCHANGED <<dom, set, other, ref, it, yielded, nones>>

\* The end of the loop: both iterators are dropped.
TwinIterDrop ==
    /\ last = NoCall
    /\ it # None
    /\ it' = None
    /\ nones' = 0
    /\ twin' = Some([twin[1] EXCEPT !.it = None])
    /\ UNCHANGED <<dom, set, other, ref, last, yielded>>

\* The results of the last call are dropped.
TwinForget ==
    /\ last # NoCall
    /\ last' = NoCall
    /\ twin' = Some([twin[1] EXCEPT !.ret = None])
    /\ UNCHANGED <<dom, set, other, ref, it, yielded, nones>>

NextTwin ==
    \/ TwinNew
    \/ TwinOnly
    \/ TwinAll
    \/ TwinClear
    \/ TwinInsert
    \/ TwinRemove
    \/ TwinInsertAll
    \/ TwinRemoveAll
    \/ TwinUnion
    \/ TwinIntersection
    \/ TwinDifference
    \/ TwinSymmetricalDifference
    \/ TwinComplement
    \/ TwinContains
    \/ TwinIsEmpty
    \/ TwinLen
    \/ TwinIsDisjoint
    \/ TwinIsSuperset
    \/ TwinIsSubset
    \/ TwinBitWidth
    \/ TwinVariantCount
    \/ TwinTryAs
    \/ TwinAs
    \/ TwinAsTruncated
    \/ TwinTryFrom
    \/ TwinFrom
    \/ TwinFromTruncated
    \/ TwinIter
    \/ TwinIterNext
    \/ TwinIterSizeHint
    \/ TwinIterDrop
    \/ TwinForget

SpecTwin == InitTwin /\ [][NextTwin]_vars

(***************************************************************************)
(* The claims                                                              *)
(***************************************************************************)

\* Bit position i belongs to a variant of d.
ValidBit(d, i) == \E v \in Variants(d) : d.ord[v] = i

\* No bit of s is set outside the bits of the variants of d.
InDomain(d, s) ==
    /\ DOMAIN s = 0..(d.WIDTH - 1)
    /\ \A i \in DOMAIN s : s[i] = 1 => ValidBit(d, i)

\* C1: every set value the public operations produce has no bit set outside
\* the valid bits of its enum type: underlying & !ALL_BITS == 0.
C1_NoBitOutsideValidBits ==
    /\ BitAnd(set, BitNot(dom.ALL_BITS)) = Zero(dom.WIDTH)
    /\ BitAnd(other, BitNot(dom.ALL_BITS)) = Zero(dom.WIDTH)
    /\ InDomain(dom, set)
    /\ InDomain(dom, other)

\* C1 witness: on the sparse enum, set is the complement of a set that is
\* neither empty nor full, taken after the operand was built and copied.
C1_Witness ==
    /\ dom.name = "SparseEnum"
    /\ ~is_empty(other)
    /\ other # all(dom)
    /\ set = complement(dom, other)
    /\ BitNot(other) # set

\* C2: set tracks the reference set: contains, len and is_empty agree with
\* it after every step; insert returns true exactly when the value was absent
\* and remove exactly when it was present; neither touches another variant.
C2_TracksReferenceSet ==
    /\ \A v \in Variants(dom) : contains(dom, set, v) <=> v \in ref
    /\ len(set) = Cardinality(ref)
    /\ is_empty(set) <=> ref = {}
    /\ last.op = "insert" => last.ret = Some(last.arg[1] \notin last.pre[1].ref)
    /\ last.op = "remove" => last.ret = Some(last.arg[1] \in last.pre[1].ref)
    /\ last.op \in {"insert", "remove"} =>
          \A u \in Variants(dom) \ {last.arg[1]} :
              contains(dom, set, u) <=> contains(dom, last.pre[1].set, u)

\* C2 witness: an insert of a variant already present returned false and a
\* set of several variants is left.
C2_Witness ==
    /\ last.op = "insert"
    /\ last.ret = Some(FALSE)
    /\ Cardinality(ref) >= 2
    /\ dom.name = "SparseEnum"

\* The integer of width W whose bit n is set exactly when the variant at bit
\* position n is in s.
BitsOfMembers(d, s, W) ==
    [n \in 0..(W - 1) |->
        IF \E v \in Variants(d) : d.ord[v] = n /\ contains(d, s, v) THEN 1 ELSE 0]

\* s has a bit set at a position >= W.
HasBitFrom(s, W) == \E i \in DOMAIN s : i >= W /\ s[i] = 1

\* C3: try_as_W is None exactly when the set has a bit at a position >= W and
\* otherwise the integer of the members' bits; as_W panics in exactly those
\* cases and otherwise returns the same integer; as_W_truncated returns the
\* low W bits.  On SparseEnum the set of A (bit 10) fails as_u8 and try_as_u8
\* and truncates to 0.
C3_ExportConversions ==
    LET s == last.pre[1].set
        W == last.w
        r == last.ret[1]
    IN /\ last.op = "try_as" =>
            /\ r = None <=> HasBitFrom(s, W)
            /\ r # None => r = Some(BitsOfMembers(dom, s, W))
       /\ last.op = "as" =>
            /\ r.panic <=> HasBitFrom(s, W)
            /\ ~r.panic => r.val = Some(BitsOfMembers(dom, s, W))
       /\ last.op = "as_truncated" =>
            /\ DOMAIN r = 0..(W - 1)
            /\ \A n \in 0..(W - 1) : r[n] = IF n \in DOMAIN s THEN s[n] ELSE 0
       /\ (dom.name = "SparseEnum" /\ W = 8 /\ s = only(dom, "A")) =>
            /\ last.op = "try_as" => r = None
            /\ last.op = "as" => r.panic
            /\ last.op = "as_truncated" => r = Zero(8)

\* C3 witness: as_u8 of the SparseEnum set of A has panicked.
C3_Witness ==
    /\ dom.name = "SparseEnum"
    /\ last.op = "as"
    /\ last.w = 8
    /\ last.pre[1].set = only(dom, "A")
    /\ last.ret[1].panic

\* bits has a bit set that is no variant's (a bit at or above the storage
\* width is no variant's).
HasInvalidBit(d, bits) == \E i \in DOMAIN bits : bits[i] = 1 /\ ~ValidBit(d, i)

\* The integer s of the storage width equals the integer bits.
SameInteger(d, s, bits) ==
    /\ DOMAIN s = 0..(d.WIDTH - 1)
    /\ \A i \in DOMAIN s \cup DOMAIN bits :
          (IF i \in DOMAIN s THEN s[i] ELSE 0) = (IF i \in DOMAIN bits THEN bits[i] ELSE 0)

\* C4: try_from_W is None exactly when the integer has a bit set outside the
\* valid bits and otherwise the set whose underlying integer equals it; from_W
\* panics in exactly those cases and otherwise returns the same set.
C4_CheckedImport ==
    LET bits == last.arg[1]
        r == last.ret[1]
    IN /\ last.op = "try_from" =>
            /\ r = None <=> HasInvalidBit(dom, bits)
            /\ r # None => SameInteger(dom, r[1], bits) /\ set = r[1]
       /\ last.op = "from" =>
            /\ r.panic <=> HasInvalidBit(dom, bits)
            /\ ~r.panic => SameInteger(dom, r.val[1], bits) /\ set = r.val[1]

\* C4 witness: try_from of an integer wider than the storage, with a bit set
\* at or above the storage width, returned None.
C4_Witness ==
    /\ last.op = "try_from"
    /\ last.w > dom.WIDTH
    /\ \E i \in DOMAIN last.arg[1] : i >= dom.WIDTH /\ last.arg[1][i] = 1
    /\ last.ret[1] = None

\* C5: from_W_truncated never fails and returns the set whose members are
\* exactly the variants whose bit is below W and set in the integer:
\* underlying == bits & ALL_BITS.
C5_TruncatingImport ==
    LET bits == last.arg[1]
        r == last.ret[1]
    IN last.op = "from_truncated" =>
          /\ DOMAIN r = 0..(dom.WIDTH - 1)
          /\ \A n \in DOMAIN r :
                r[n] = 1 <=> (n < last.w /\ bits[n] = 1 /\ ValidBit(dom, n))
          /\ \A v \in Variants(dom) :
                contains(dom, r, v) <=>
                    (dom.ord[v] < last.w /\ bits[dom.ord[v]] = 1)
          /\ set = r

\* C5 witness: from_W_truncated of an integer with a valid and an invalid bit
\* kept the one and dropped the other.
C5_Witness ==
    /\ last.op = "from_truncated"
    /\ HasInvalidBit(dom, last.arg[1])
    /\ ~is_empty(last.ret[1])
    /\ last.w # dom.WIDTH

\* C6: for W >= bit_width(), try_from_W(as_W_truncated(a)) is Some(a); and
\* where as_W(a) succeeds, from_W_truncated(as_W(a)) is a.
C6_RoundTrip ==
    /\ (last.op = "try_from(as_truncated)" /\ last.w >= bit_width(dom)) =>
          last.ret[1] = Some(last.pre[1].set)
    /\ last.op = "from_truncated(as)" => last.ret[1] = last.pre[1].set

\* C6 witness: a set holding the top bit of its storage type went out to an
\* integer of another width and came back.
C6_Witness ==
    /\ last.op = "try_from(as_truncated)"
    /\ last.w > dom.WIDTH
    /\ bit_width(dom) = dom.WIDTH
    /\ last.pre[1].set = all(dom)
    /\ last.ret[1] = Some(all(dom))

\* How many more variants calls of next() yield from position pos of set s.
RECURSIVE Remaining(_, _, _)
Remaining(d, s, pos) ==
    LET r == next_scan(d, s, pos)
    IN IF r.bit = None THEN 0 ELSE 1 + Remaining(d, s, r.pos)

\* C7: a fresh iterator of a yields each member of a exactly once, in
\* strictly increasing bit position, nothing that is not in a, hands
\* enum_from_u32 only bits of variants, and returns None after exactly len(a)
\* yields and on every call after that.  {A, C, G} of Enum iterates to
\* [A, C, G].
C7_IterationOrder ==
    it # None =>
        LET a == it[1].set
        IN /\ a = set
           /\ \A k \in 1..Len(yielded) :
                 /\ yielded[k] \in Variants(dom)
                 /\ contains(dom, a, yielded[k])
           /\ \A j, k \in 1..Len(yielded) :
                 j < k => dom.ord[yielded[j]] < dom.ord[yielded[k]]
           /\ {yielded[k] : k \in 1..Len(yielded)} =
                 {v \in Variants(dom) : contains(dom, a, v) /\ dom.ord[v] < it[1].pos}
           /\ Len(yielded) <= len(a)
           /\ nones > 0 =>
                 /\ Len(yielded) = len(a)
                 /\ {yielded[k] : k \in 1..Len(yielded)} =
                       {v \in Variants(dom) : contains(dom, a, v)}
           /\ (last.op = "next" /\ nones > 1) => last.ret[1] = None
           /\ (last.op = "next" /\ last.arg # None) => ValidBit(dom, last.arg[1])
           /\ (dom.name = "Enum" /\ a = SetOf(dom, {"A", "C", "G"}) /\ nones > 0) =>
                 yielded = <<"A", "C", "G">>

\* C7 witness: the iterator of {A, C, G} of Enum has run out and next() has
\* been called again after that.
C7_Witness ==
    /\ dom.name = "Enum"
    /\ it # None
    /\ it[1].set = SetOf(dom, {"A", "C", "G"})
    /\ yielded = <<"A", "C", "G">>
    /\ nones = 2
    /\ last.op = "next"

\* C8: at every point of an iteration size_hint() is (n, Some(n)) with n the
\* number of variants next() will still yield, the count of the set's bits at
\* positions >= the scan position; 0 when the position is the storage width.
C8_SizeHintExact ==
    it # None =>
        LET i == it[1]
            n == Cardinality({b \in DOMAIN i.set : i.set[b] = 1 /\ b >= i.pos})
        IN /\ size_hint(dom, i) = <<n, Some(n)>>
           /\ n = Remaining(dom, i.set, i.pos)
           /\ n = len(i.set) - Len(yielded)
           /\ last.op = "size_hint" => last.ret[1] = <<n, Some(n)>>
           /\ i.pos = dom.WIDTH => size_hint(dom, i) = <<0, Some(0)>>

\* C8 witness: size_hint() was called on the iterator of a SparseEnum set
\* holding D (bit 127) after it ran out, the scan position at 128.
C8_Witness ==
    /\ dom.name = "SparseEnum"
    /\ it # None
    /\ it[1].pos = 128
    /\ contains(dom, it[1].set, "D")
    /\ last.op = "size_hint"
    /\ last.ret[1] = <<0, Some(0)>>

\* C9: union and intersection commute, complement is an involution,
\* difference(a, b) is intersection(a, complement(b)), and De Morgan holds,
\* for all sets a, b of an enum type.  In Enum, complement({E, G}) is
\* {A, B, C, D, F}, of length 5, and symmetrical_difference({A, B}, {B, C}) is
\* {A, C}.
C9_SetAlgebra ==
    LET a == set
        b == other
    IN /\ union(a, b) = union(b, a)
       /\ intersection(a, b) = intersection(b, a)
       /\ complement(dom, complement(dom, a)) = a
       /\ difference(a, b) = intersection(a, complement(dom, b))
       /\ complement(dom, union(a, b)) =
             intersection(complement(dom, a), complement(dom, b))
       /\ (dom.name = "Enum" /\ a = SetOf(dom, {"E", "G"})) =>
             /\ complement(dom, a) = SetOf(dom, {"A", "B", "C", "D", "F"})
             /\ len(complement(dom, a)) = 5
       /\ (dom.name = "Enum" /\ a = SetOf(dom, {"A", "B"}) /\ b = SetOf(dom, {"B", "C"})) =>
             symmetrical_difference(a, b) = SetOf(dom, {"A", "C"})

\* C9 witness: in Enum, set is {A, B} and other is {B, C}, two overlapping
\* sets, neither inside the other.
C9_Witness ==
    /\ dom.name = "Enum"
    /\ set = SetOf(dom, {"A", "B"})
    /\ other = SetOf(dom, {"B", "C"})
    /\ difference(set, other) = only(dom, "A")

\* C10: is_subset(a, b) is union(a, b) == b, is_superset(a, b) is
\* is_subset(b, a) and union(a, b) == a, is_disjoint(a, b) is
\* is_empty(intersection(a, b)); is_subset(a, b) holds exactly when every
\* member of a is a member of b.
C10_RelationalQueries ==
    LET a == set
        b == other
    IN /\ is_subset(a, b) <=> (union(a, b) = b)
       /\ is_superset(a, b) <=> is_subset(b, a)
       /\ is_superset(a, b) <=> (union(a, b) = a)
       /\ is_disjoint(a, b) <=> is_empty(intersection(a, b))
       /\ is_subset(a, b) <=>
             \A v \in Variants(dom) : contains(dom, a, v) => contains(dom, b, v)
       /\ is_disjoint(a, b) <=>
             ~\E v \in Variants(dom) : contains(dom, a, v) /\ contains(dom, b, v)

\* C10 witness: set is a proper, non-empty subset of other on the sparse enum.
C10_Witness ==
    /\ dom.name = "SparseEnum"
    /\ ~is_empty(set)
    /\ set # other
    /\ is_subset(set, other)
    /\ ~is_superset(set, other)
    /\ ~is_disjoint(set, other)

\* The union of only(v) over the values of a list.
RECURSIVE UnionOfOnly(_, _)
UnionOfOnly(d, values) ==
    IF values = <<>> THEN empty(d)
    ELSE union(only(d, Head(values)), UnionOfOnly(d, Tail(values)))

\* The set left by inserting the values of a list one by one into s.
RECURSIVE InsertEach(_, _, _)
InsertEach(d, s, values) ==
    IF values = <<>> THEN s
    ELSE InsertEach(d, insert(d, s, Head(values)).self, Tail(values))

\* C11: enum_set!(v1 | ... | vk), for any list of variants of one enum type
\* (repeats allowed, any order), is the union of only(v1) .. only(vk), the set
\* left by inserting v1 .. vk into an empty set; the empty literal is empty();
\* the result has no bit outside the valid bits.
C11_LiteralIsUnionOfOnly ==
    last.op = "enum_set" =>
        LET values == last.arg[1]
            r == last.ret[1]
        IN /\ r = UnionOfOnly(dom, values)
           /\ r = InsertEach(dom, empty(dom), values)
           /\ values = <<>> => r = empty(dom)
           /\ InDomain(dom, r)
           /\ BitAnd(r, BitNot(dom.ALL_BITS)) = Zero(dom.WIDTH)
           /\ \A v \in Variants(dom) :
                 contains(dom, r, v) <=> \E k \in 1..Len(values) : values[k] = v
           /\ set = r

\* C11 witness: the SparseEnum literal D | A | D, out of order and with a
\* repeat, is the set {A, D}.
C11_Witness ==
    /\ dom.name = "SparseEnum"
    /\ last.op = "enum_set"
    /\ last.arg[1] = <<"D", "A", "D">>
    /\ set = SetOf(dom, {"A", "D"})

\* The bit positions of the variants of d.
ValidBits(d) == {d.ord[v] : v \in Variants(d)}

\* C12: bit_width() is the highest valid bit position plus one (the storage
\* width less the leading zeros of ALL_BITS), variant_count() the number of
\* variants, all().len() equals variant_count(), and bit_width() equals
\* variant_count() exactly when the valid positions are 0..variant_count()-1;
\* for SparseEnum bit_width() is 128 and variant_count() is 4.
C12_BitWidthAndVariantCount ==
    LET top == Max(ValidBits(dom))
        r == last.ret[1]
    IN /\ last.op = "bit_width" =>
            /\ r = top + 1
            /\ r = dom.WIDTH - Cardinality({i \in 0..(dom.WIDTH - 1) : i > top})
       /\ last.op = "variant_count" =>
            /\ r = Cardinality(Variants(dom))
            /\ r = Cardinality({i \in DOMAIN dom.ALL_BITS : dom.ALL_BITS[i] = 1})
       /\ last.op = "all().len" => r = variant_count(dom)
       /\ bit_width(dom) = variant_count(dom) <=>
             ValidBits(dom) = 0..(variant_count(dom) - 1)
       /\ dom.name = "SparseEnum" =>
             bit_width(dom) = 128 /\ variant_count(dom) = 4

\* C12 witness: bit_width() of an enum type with its variants at 0 and 64,
\* stored in a u128, has returned 65.
C12_Witness ==
    /\ ValidBits(dom) = {0, 64}
    /\ dom.WIDTH = 128
    /\ last.op = "bit_width"
    /\ last.ret[1] = 65
    /\ variant_count(dom) = 2

\* What the iterator has yielded is the members the set had at iter(), in
\* increasing bit position, up to the scan position; its copy of the set and
\* its size_hint() are those of that set, whatever the set has become.
IterYieldsSnapshot ==
    it # None =>
        /\ {v \in Variants(dom) : contains(dom, it[1].set, v)} = ref
        /\ \A j, k \in 1..Len(yielded) :
              j < k => dom.ord[yielded[j]] < dom.ord[yielded[k]]
        /\ {yielded[k] : k \in 1..Len(yielded)} =
              {v \in ref : dom.ord[v] < it[1].pos}
        /\ nones > 0 =>
              /\ {yielded[k] : k \in 1..Len(yielded)} = ref
              /\ Len(yielded) = Cardinality(ref)
        /\ size_hint(dom, it[1]) =
              <<Cardinality(ref) - Len(yielded), Some(Cardinality(ref) - Len(yielded))>>
        /\ last.op = "size_hint" =>
              last.ret[1][1] = Cardinality(ref) - Len(yielded)

\* A step of the iterator (iter(), next(), size_hint()) leaves the set as it
\* is, and a change of the set leaves the iterator and what it yielded.
IterAndSetApart ==
    /\ (it' # it \/ last' # last) => set' = set
    /\ set' # set => (it' = it /\ yielded' = yielded /\ nones' = nones)

\* C13: an iterator owns a copy of the set taken at iter(): however next()
\* and size_hint() interleave with insert, remove, insert_all, remove_all and
\* clear on the set, it yields exactly the members the set had at iter(), no
\* iterator call changes the set, and a fresh iterator of the set yields its
\* members again.
C13_IteratorOwnsCopy == [](IterYieldsSnapshot) /\ [][IterAndSetApart]_vars

\* C13 witness: an iterator of {A, C} of WideU64 has yielded A and C and run
\* out, while the set has become {B}.
C13_Witness ==
    /\ dom.name = "WideU64"
    /\ it # None
    /\ ref = {"A", "C"}
    /\ yielded = <<"A", "C">>
    /\ nones > 0
    /\ set = only(dom, "B")

\* The integer x has bit i set.
BitSet(x, i) == i \in DOMAIN x /\ x[i] = 1

\* The sets a of the enum d and b of the enum e have the same members and
\* are the same integer.
SameSet(d, a, e, b) ==
    /\ \A v \in Variants(d) : contains(d, a, v) <=> contains(e, b, v)
    /\ \A i \in 0..127 : BitSet(a, i) <=> BitSet(b, i)

\* C14: the same sequence of calls (construction, insert and remove, set
\* algebra, relational queries, len, bit_width, variant_count, the as_W,
\* try_as_W, as_W_truncated, from_W, try_from_W and from_W_truncated of every
\* W, iteration with size_hint) made on one enum backed by two storage types
\* that both have a bit for every variant gives at every step the same
\* members, the same return value and the same panic or None.
C14_StorageWidthUnobservable ==
    /\ twin[1].dom.ord = dom.ord
    /\ twin[1].dom.WIDTH # dom.WIDTH
    /\ \A i \in 0..127 : BitSet(dom.ALL_BITS, i) <=> BitSet(twin[1].dom.ALL_BITS, i)
    /\ SameSet(dom, set, twin[1].dom, twin[1].set)
    /\ last # NoCall => last.ret = twin[1].ret
    /\ (it = None) <=> (twin[1].it = None)
    /\ it # None =>
          /\ it[1].pos = twin[1].it[1].pos
          /\ SameSet(dom, it[1].set, twin[1].dom, twin[1].it[1].set)
          /\ size_hint(dom, it[1]) = size_hint(twin[1].dom, twin[1].it[1])

\* C14 witness: TopU8 stored in a u8 and in a u16; both iterators of {A, B}
\* have run to position 8, the whole width of the u8, and size_hint() is
\* called on them.
C14_Witness ==
    /\ dom.name = "TopU8"
    /\ dom.WIDTH = 8
    /\ twin[1].dom.WIDTH = 16
    /\ set = all(dom)
    /\ it # None
    /\ it[1].pos = 8
    /\ nones > 0
    /\ last.op = "size_hint"
    /\ twin[1].ret = Some(<<0, Some(0)>>)

====
